---- MODULE Spec2Model ----
(***************************************************************************)
(* Model of the ranking pipeline of app.py: deposit parsing, proximity     *)
(* scoring, the global sort, dense rank and badge, and the filtered view   *)
(* derived from the ranked table.                                          *)
(*                                                                         *)
(* Text is a sequence of one-character strings, so that lower(), strip(),  *)
(* substring tests, regular-expression scans and string comparison are     *)
(* computed character by character as Python computes them.                *)
(*                                                                         *)
(* Left out: the rent_min_1bhk and rent_max_1bhk columns, the page layout  *)
(* and the "Compare 2 Areas" cards, which read the ranked frame and write  *)
(* nothing the properties below speak of.                                  *)
(***************************************************************************)
EXTENDS Integers, Sequences, FiniteSets, TLC

VARIABLES
    pc,             \* position of the script run
    df,             \* the data frame (list of rows), enriched as the run proceeds
    zone_selected, rent_range, search, group_zone, sort_choice,  \* sidebar widgets
    filtered,       \* the filtered and display-sorted rows
    view,           \* the rendered table
    download_cols,  \* the exported table
    csv,            \* the listings in mmr_rent_data.csv
    depText, depResult,         \* argument / result of parse_deposit_ratio
    pxArea, pxRegion, pxResult  \* arguments / result of proximity_score

vars == <<pc, csv, df, zone_selected, rent_range, search, group_zone, sort_choice,
          filtered, view, download_cols, depText, depResult,
          pxArea, pxRegion, pxResult>>

pipeVars == <<df, zone_selected, rent_range, search, group_zone, sort_choice,
              filtered, view, download_cols>>
depVars == <<depText, depResult>>
pxVars == <<pxArea, pxRegion, pxResult>>

-----------------------------------------------------------------------------
(* Bounds *)

MaxDepLen == 5      \* longest enumerated deposit text
MaxTokens == 2      \* most locality tokens in an enumerated area name
MaxRows == 3        \* most rows in an enumerated catalogue
MaxCatalog == 57    \* most distinct medians in a generated large catalogue

-----------------------------------------------------------------------------
(* Characters and strings *)

Punct == <<" ", "-", ".", "/">>
Digits == <<"0","1","2","3","4","5","6","7","8","9">>
UpperCase == <<"A","B","C","D","E","F","G","H","I","J","K","L","M",
               "N","O","P","Q","R","S","T","U","V","W","X","Y","Z">>
LowerCase == <<"a","b","c","d","e","f","g","h","i","j","k","l","m",
               "n","o","p","q","r","s","t","u","v","w","x","y","z">>

\* the characters in code-point order; Ord(c) preserves the order of ord(c)
Ascii == Punct \o Digits \o UpperCase \o LowerCase

Ord(c) == CHOOSE i \in 1..Len(Ascii) : Ascii[i] = c

IsDigit(c) == \E i \in 1..Len(Digits) : Digits[i] = c

DigitVal(c) == (CHOOSE i \in 1..Len(Digits) : Digits[i] = c) - 1

IsSpace(c) == c = " "

LowerChar(c) ==
    IF \E i \in 1..Len(UpperCase) : UpperCase[i] = c
    THEN LowerCase[CHOOSE i \in 1..Len(UpperCase) : UpperCase[i] = c]
    ELSE c

\* the values of a function on 1..n as a list, each computed once
List(f) == f \o <<>>

\* str.lower()
Lower(s) == List([i \in 1..Len(s) |-> LowerChar(s[i])])

RECURSIVE LStrip(_)
LStrip(s) == IF s # <<>> /\ IsSpace(Head(s)) THEN LStrip(Tail(s)) ELSE s

RECURSIVE RStrip(_)
RStrip(s) ==
    IF s # <<>> /\ IsSpace(s[Len(s)]) THEN RStrip(SubSeq(s, 1, Len(s) - 1)) ELSE s

\* str.strip()
Strip(s) == RStrip(LStrip(s))

\* Python's  needle in hay
Contains(hay, needle) ==
    \E i \in 1..(Len(hay) - Len(needle) + 1) :
        SubSeq(hay, i, i + Len(needle) - 1) = needle

\* a string as integers that compare like the string: code points, then 0
StrKey(s) == [i \in 1..Len(s) |-> Ord(s[i])] \o <<0>>

\* lexicographic order of integer sequences
RECURSIVE SeqLess(_, _)
SeqLess(a, b) ==
    IF b = <<>> THEN FALSE
    ELSE IF a = <<>> THEN TRUE
    ELSE IF Head(a) # Head(b) THEN Head(a) < Head(b)
    ELSE SeqLess(Tail(a), Tail(b))

-----------------------------------------------------------------------------
(* Missing values and floats *)

\* the missing value: NaN of a float column, <NA> of the Int64 rank column
NaN == -1

IsNa(v) == v = NaN

\* a float is <<whole, frac>>, frac counted in units of 10^-FracDigits
FracDigits == MaxDepLen + 2

RECURSIVE Pow10(_)
Pow10(n) == IF n = 0 THEN 1 ELSE 10 * Pow10(n - 1)

RECURSIVE DigitsToInt(_)
DigitsToInt(t) ==
    IF t = <<>> THEN 0
    ELSE 10 * DigitsToInt(SubSeq(t, 1, Len(t) - 1)) + DigitVal(t[Len(t)])

\* float(t) for t of the form digits or digits.digits
ToFloat(t) ==
    LET dots == {i \in 1..Len(t) : t[i] = "."}
    IN  IF dots = {} THEN <<DigitsToInt(t), 0>>
        ELSE LET d == CHOOSE i \in dots : TRUE
                 fr == SubSeq(t, d + 1, Len(t))
             IN  <<DigitsToInt(SubSeq(t, 1, d - 1)),
                   DigitsToInt(fr) * Pow10(FracDigits - Len(fr))>>

DefaultDeposit == <<4, 0>>

-----------------------------------------------------------------------------
(* parse_deposit_ratio *)

\* a cell of the deposit_ratio column: missing, or a text
NaCell == [na |-> TRUE, text |-> <<>>]
TextCell(t) == [na |-> FALSE, text |-> t]

RECURSIVE DigitRun(_, _)
DigitRun(s, i) ==
    IF i > Len(s) \/ ~IsDigit(s[i]) THEN 0 ELSE 1 + DigitRun(s, i + 1)

RECURSIVE SpaceRun(_, _)
SpaceRun(s, i) ==
    IF i > Len(s) \/ ~IsSpace(s[i]) THEN 0 ELSE 1 + SpaceRun(s, i + 1)

\* \s*x at position p, \s* greedy, giving back one character at a time
RECURSIVE TryWs(_, _, _)
TryWs(s, p, w) ==
    IF p + w <= Len(s) /\ s[p + w] = "x" THEN TRUE
    ELSE IF w = 0 THEN FALSE
    ELSE TryWs(s, p, w - 1)

TailX(s, p) == TryWs(s, p, SpaceRun(s, p))

\* \.\d+ then \s*x, with the digits at q; the end of group 1, or 0
RECURSIVE TryFracDigits(_, _, _)
TryFracDigits(s, q, m) ==
    IF m = 0 THEN 0
    ELSE IF TailX(s, q + m) THEN q + m - 1
    ELSE TryFracDigits(s, q, m - 1)

\* TryFrac for a pattern without the fraction group, (\d+)\s*x
TryFracNone(s, p) == IF TailX(s, p) THEN p - 1 ELSE 0

\* (\.\d+)?\s*x after an integer part ending before p; the end of group 1, or 0
TryFrac(s, p) ==
    LET withFrac == IF p <= Len(s) /\ s[p] = "."
                    THEN TryFracDigits(s, p + 1, DigitRun(s, p + 1))
                    ELSE 0
    IN  IF withFrac # 0 THEN withFrac
        ELSE IF TailX(s, p) THEN p - 1
        ELSE 0

\* (\d+(\.\d+)?)\s*x anchored at i, \d+ taking k digits first
RECURSIVE TryInt(_, _, _)
TryInt(s, i, k) ==
    IF k = 0 THEN 0
    ELSE LET e == TryFrac(s, i + k)
         IN  IF e # 0 THEN e ELSE TryInt(s, i, k - 1)

\* re.search(r"(\d+(\.\d+)?)\s*x", s): <<start, end>> of group 1, or <<0, 0>>
RECURSIVE SearchNumX(_, _)
SearchNumX(s, i) ==
    IF i > Len(s) THEN <<0, 0>>
    ELSE LET e == TryInt(s, i, DigitRun(s, i))
         IN  IF e # 0 THEN <<i, e>> ELSE SearchNumX(s, i + 1)

\* re.search(r"\d+(\.\d+)?", s): <<start, end>> of group 0, or <<0, 0>>
RECURSIVE SearchNum(_, _)
SearchNum(s, i) ==
    IF i > Len(s) THEN <<0, 0>>
    ELSE IF ~IsDigit(s[i]) THEN SearchNum(s, i + 1)
    ELSE LET p == i + DigitRun(s, i)
             m == IF p <= Len(s) /\ s[p] = "." THEN DigitRun(s, p + 1) ELSE 0
         IN  IF m > 0 THEN <<i, p + m>> ELSE <<i, p - 1>>

parse_deposit_ratio(cell) ==
    IF cell.na THEN DefaultDeposit
    ELSE LET s == Strip(Lower(cell.text))
             m == SearchNumX(s, 1)
             m2 == SearchNum(s, 1)
         IN  IF m # <<0, 0>> THEN ToFloat(SubSeq(s, m[1], m[2]))
             ELSE IF m2 # <<0, 0>> THEN ToFloat(SubSeq(s, m2[1], m2[2]))
             ELSE DefaultDeposit

-----------------------------------------------------------------------------
(* Locality tables *)

western_core ==
    << <<"B","a","n","d","r","a">>,
       <<"K","h","a","r">>,
       <<"S","a","n","t","a","c","r","u","z">>,
       <<"A","n","d","h","e","r","i">>,
       <<"J","o","g","e","s","h","w","a","r","i">>,
       <<"G","o","r","e","g","a","o","n">>,
       <<"M","a","l","a","d">>,
       <<"K","a","n","d","i","v","a","l","i">>,
       <<"B","o","r","i","v","a","l","i">>,
       <<"D","a","h","i","s","a","r">>,
       <<"M","i","r","a"," ","R","o","a","d">>,
       <<"B","h","a","y","a","n","d","e","r">>,
       <<"V","a","s","a","i">>,
       <<"N","a","i","g","a","o","n">>,
       <<"N","a","l","a","s","o","p","a","r","a">>,
       <<"V","i","r","a","r">> >>

central_core ==
    << <<"D","a","d","a","r">>,
       <<"M","a","t","u","n","g","a">>,
       <<"S","i","o","n">>,
       <<"K","u","r","l","a">>,
       <<"G","h","a","t","k","o","p","a","r">>,
       <<"V","i","k","h","r","o","l","i">>,
       <<"B","h","a","n","d","u","p">>,
       <<"M","u","l","u","n","d">>,
       <<"T","h","a","n","e">>,
       <<"K","a","l","w","a">>,
       <<"M","u","m","b","r","a">>,
       <<"D","i","v","a">>,
       <<"D","o","m","b","i","v","l","i">>,
       <<"K","a","l","y","a","n">>,
       <<"A","m","b","e","r","n","a","t","h">>,
       <<"B","a","d","l","a","p","u","r">>,
       <<"V","a","n","g","a","n","i">>,
       <<"T","i","t","w","a","l","a">> >>

harbour_core ==
    << <<"C","h","e","m","b","u","r">>,
       <<"G","o","v","a","n","d","i">>,
       <<"M","a","n","k","h","u","r","d">> >>

south_core ==
    << <<"L","o","w","e","r"," ","P","a","r","e","l">>,
       <<"W","o","r","l","i">>,
       <<"P","r","a","b","h","a","d","e","v","i">>,
       <<"M","a","h","i","m">>,
       <<"W","a","d","a","l","a">>,
       <<"C","u","f","f","e"," ","P","a","r","a","d","e">>,
       <<"M","a","l","a","b","a","r"," ","H","i","l","l">>,
       <<"C","o","l","a","b","a">> >>

navi_core ==
    << <<"V","a","s","h","i">>,
       <<"A","i","r","o","l","i">>,
       <<"K","o","p","a","r"," ","K","h","a","i","r","a","n","e">>,
       <<"G","h","a","n","s","o","l","i">>,
       <<"T","u","r","b","h","e">>,
       <<"S","a","n","p","a","d","a">>,
       <<"S","e","a","w","o","o","d","s">>,
       <<"N","e","r","u","l">>,
       <<"B","e","l","a","p","u","r">>,
       <<"K","h","a","r","g","h","a","r">>,
       <<"K","a","m","o","t","h","e">>,
       <<"U","l","w","e">>,
       <<"N","e","w"," ","P","a","n","v","e","l">>,
       <<"P","a","n","v","e","l">>,
       <<"T","a","l","o","j","a">> >>

-----------------------------------------------------------------------------
(* proximity_score *)

\* the None returned by first_match_idx
None == -1

\* position (from 0) of the first name whose lowercase occurs in area_lower
first_match_idx(area_lower, names) ==
    LET hits == {i \in 1..Len(names) : Contains(area_lower, Lower(names[i]))}
    IN  IF hits = {} THEN None
        ELSE (CHOOSE i \in hits : \A j \in hits : i <= j) - 1

\* any(k.lower() in a for k in names)
AnyNameIn(a, names) == \E i \in 1..Len(names) : Contains(a, Lower(names[i]))

\* idx if idx is not None else dflt
IdxOr(idx, dflt) == IF idx # None THEN idx ELSE dflt

\* the band tests and returns of proximity_score, on the lowercased texts
ScoreBands(a, r) ==
    IF Contains(r, <<"s","o","u","t","h">>) \/ AnyNameIn(a, south_core)
    THEN IdxOr(first_match_idx(a, south_core), 0)
    ELSE IF Contains(r, <<"w","e","s","t","e","r","n">>) \/ AnyNameIn(a, western_core)
    THEN IdxOr(first_match_idx(a, western_core), 50)
    ELSE IF Contains(r, <<"c","e","n","t","r","a","l">>) \/ AnyNameIn(a, central_core)
    THEN IdxOr(first_match_idx(a, central_core), 50)
    ELSE IF Contains(r, <<"h","a","r","b","o","u","r">>)
            \/ Contains(a, <<"c","h","e","m","b","u","r">>)
    THEN IdxOr(first_match_idx(a, harbour_core), 30)
    ELSE IF Contains(r, <<"n","a","v","i">>) \/ AnyNameIn(a, navi_core)
    THEN IdxOr(first_match_idx(a, navi_core), 40)
    ELSE 60

proximity_score(area, region) == ScoreBands(Lower(area), Lower(region))

-----------------------------------------------------------------------------
(* Sorting *)

\* rows in ascending order of keys; rows of equal key keep their order
\* (in reverse when rev), as DataFrame.sort_values does with several keys
SortPositions(keys, rev) ==
    List([i \in 1..Len(keys) |->
            1 + Cardinality({j \in 1..Len(keys) :
                   \/ SeqLess(keys[j], keys[i])
                   \/ /\ keys[j] = keys[i]
                      /\ IF rev THEN j > i ELSE j < i})])

Permuted(rows, pos) ==
    [p \in 1..Len(rows) |-> rows[CHOOSE i \in 1..Len(rows) : pos[i] = p]]

SortRows(rows, keys, rev) == Permuted(rows, SortPositions(List(keys), rev))

\* a numeric column as a sort key: missing values last
NumKey(v) == IF IsNa(v) THEN <<1, 0>> ELSE <<0, v>>

NumKeyDesc(v) == IF IsNa(v) THEN <<1, 0>> ELSE <<0, 0 - v>>

-----------------------------------------------------------------------------
(* Ranking engine *)

AllDigits(t) == t # <<>> /\ \A i \in 1..Len(t) : IsDigit(t[i])

\* pd.to_numeric(col, errors="coerce") on a cell holding a plain digit string,
\* some other text, or nothing
to_numeric(cell) ==
    IF cell.na THEN NaN
    ELSE IF AllDigits(cell.text) THEN DigitsToInt(cell.text)
    ELSE NaN

Coerced(rows) ==
    [i \in 1..Len(rows) |->
        [rows[i] EXCEPT !.rent_median_1bhk = to_numeric(rows[i].rent_median_1bhk)]]

WithDeposit(rows) ==
    [i \in 1..Len(rows) |->
        rows[i] @@ [deposit_months_min |-> parse_deposit_ratio(rows[i].deposit_ratio)]]

WithProximity(rows) ==
    [i \in 1..Len(rows) |->
        rows[i] @@ [proximity_score |-> proximity_score(rows[i].area, rows[i].region)]]

\* GlobalSortKey without the proximity column
GlobalSortKeyNoProximity(r) ==
    NumKey(r.rent_median_1bhk) \o r.deposit_months_min \o StrKey(r.area)

\* by=["rent_median_1bhk", "deposit_months_min", "proximity_score", "area"]
GlobalSortKey(r) ==
    NumKey(r.rent_median_1bhk) \o r.deposit_months_min
        \o <<r.proximity_score>> \o StrKey(r.area)

GlobalSorted(rows) ==
    SortRows(rows, [i \in 1..Len(rows) |-> GlobalSortKey(rows[i])], FALSE)

\* DenseStep for method="min": the rank is the position in the order
DenseStepMin(k, prevRank) == k

\* the rank of the k-th value in ascending order, when it differs from the
\* value before it, whose rank is prevRank
DenseStep(k, prevRank) == prevRank + 1

\* Series.rank(method="dense"): walk the values in ascending order, a new rank
\* for each new value; a missing value gets no rank
RECURSIVE DenseWalk(_, _, _, _)
DenseWalk(vals, order, k, acc) ==
    IF k > Len(order) THEN acc
    ELSE LET v == vals[order[k]]
             rk == IF IsNa(v) THEN NaN
                   ELSE IF k = 1 THEN 1
                   ELSE IF v = vals[order[k - 1]] THEN acc[k - 1]
                   ELSE DenseStep(k, acc[k - 1])
         IN  DenseWalk(vals, order, k + 1, Append(acc, rk))

\* the ranks found along the ascending order, put back in row order
Unordered(byOrder, order) ==
    [i \in 1..Len(order) |-> byOrder[CHOOSE k \in 1..Len(order) : order[k] = i]]

RankAlong(vals, order) == Unordered(DenseWalk(vals, order, 1, <<>>), List(order))

rank_dense(vals) ==
    RankAlong(List(vals), SortRows([i \in 1..Len(vals) |-> i],
                             [i \in 1..Len(vals) |-> NumKey(vals[i])], FALSE))

RanksInto(rows, ranks) ==
    [i \in 1..Len(rows) |-> rows[i] @@ [global_rank |-> ranks[i]]]

WithRank(rows) ==
    RanksInto(rows, rank_dense([i \in 1..Len(rows) |-> rows[i].rent_median_1bhk]))

\* rank_badge with the Value bucket ending one rank early
rank_badge_short_value(rank_val) ==
    IF IsNa(rank_val) THEN ""
    ELSE IF 1 <= rank_val /\ rank_val <= 15 THEN "Budget"
    ELSE IF 16 <= rank_val /\ rank_val <= 24 THEN "Value"
    ELSE IF 26 <= rank_val /\ rank_val <= 40 THEN "Mid"
    ELSE IF 41 <= rank_val /\ rank_val <= 50 THEN "Upper Mid"
    ELSE IF 51 <= rank_val /\ rank_val <= 55 THEN "Premium"
    ELSE "Luxury"

rank_badge(rank_val) ==
    IF IsNa(rank_val) THEN ""
    ELSE IF 1 <= rank_val /\ rank_val <= 15 THEN "Budget"
    ELSE IF 16 <= rank_val /\ rank_val <= 25 THEN "Value"
    ELSE IF 26 <= rank_val /\ rank_val <= 40 THEN "Mid"
    ELSE IF 41 <= rank_val /\ rank_val <= 50 THEN "Upper Mid"
    ELSE IF 51 <= rank_val /\ rank_val <= 55 THEN "Premium"
    ELSE "Luxury"

WithBadge(rows) ==
    [i \in 1..Len(rows) |-> rows[i] @@ [badge |-> rank_badge(rows[i].global_rank)]]

-----------------------------------------------------------------------------
(* Filtered view *)

SeqToSet(s) == {s[i] : i \in 1..Len(s)}

Medians(rows) == {rows[i].rent_median_1bhk : i \in 1..Len(rows)} \ {NaN}

\* Series.min() / Series.max(): missing values skipped, NaN when nothing is left
ColMin(rows) ==
    IF Medians(rows) = {} THEN NaN
    ELSE CHOOSE m \in Medians(rows) : \A x \in Medians(rows) : m <= x

ColMax(rows) ==
    IF Medians(rows) = {} THEN NaN
    ELSE CHOOSE m \in Medians(rows) : \A x \in Medians(rows) : m >= x

SortChoices == {"Global Rank (asc)", "Median 1BHK (asc)", "Median 1BHK (desc)", "Area (A-Z)"}

RECURSIVE SelectSeq2(_, _)
SelectSeq2(rows, keep) ==
    IF rows = <<>> THEN <<>>
    ELSE IF keep[1] THEN <<rows[1]>> \o SelectSeq2(Tail(rows), Tail(keep))
    ELSE SelectSeq2(Tail(rows), Tail(keep))

\* mask = zone.isin(zone_selected) & median.between(*rent_range) [& area contains s]
Mask(r, zsel, range, srch) ==
    /\ r.zone \in zsel
    /\ ~IsNa(r.rent_median_1bhk)
    /\ range[1] <= r.rent_median_1bhk
    /\ r.rent_median_1bhk <= range[2]
    /\ (Strip(srch) # <<>> => Contains(Lower(r.area), Lower(Strip(srch))))

\* FilterRows followed by a rank and badge recomputed over the kept rows
Reranked(rows, ranks) ==
    [i \in 1..Len(rows) |->
        [rows[i] EXCEPT !.global_rank = ranks[i], !.badge = rank_badge(ranks[i])]]

FilterRowsReranked(rows, zsel, range, srch) ==
    Reranked(SelectSeq2(rows, [i \in 1..Len(rows) |-> Mask(rows[i], zsel, range, srch)]),
             rank_dense([i \in 1..Len(SelectSeq2(rows, [k \in 1..Len(rows) |-> Mask(rows[k], zsel, range, srch)])) |->
                            SelectSeq2(rows, [k \in 1..Len(rows) |-> Mask(rows[k], zsel, range, srch)])[i].rent_median_1bhk]))

\* df.loc[mask].copy()
FilterRows(rows, zsel, range, srch) ==
    SelectSeq2(rows, [i \in 1..Len(rows) |-> Mask(rows[i], zsel, range, srch)])

DisplayKey(r, grp, choice) ==
    IF grp
    THEN StrKey(r.zone) \o NumKey(r.rent_median_1bhk) \o r.deposit_months_min
            \o <<r.proximity_score>> \o StrKey(r.area)
    ELSE IF choice = "Global Rank (asc)"
    THEN NumKey(r.global_rank) \o StrKey(r.area)
    ELSE IF choice = "Median 1BHK (asc)"
    THEN NumKey(r.rent_median_1bhk) \o StrKey(r.area)
    ELSE IF choice = "Median 1BHK (desc)"
    THEN NumKeyDesc(r.rent_median_1bhk) \o StrKey(r.area)
    ELSE StrKey(r.area)

\* the sort for display; with the single key "area" the sort is not stable, and
\* rows of equal area come out in either order
DisplaySorted(rows, grp, choice, rev) ==
    SortRows(rows, [i \in 1..Len(rows) |-> DisplayKey(rows[i], grp, choice)],
             rev /\ ~grp /\ choice = "Area (A-Z)")

RECURSIVE IntToDigits(_)
IntToDigits(n) ==
    IF n < 10 THEN <<Digits[n + 1]>>
    ELSE IntToDigits(n \div 10) \o <<Digits[(n % 10) + 1]>>

\* thousands separators
RECURSIVE Commas(_)
Commas(t) ==
    IF Len(t) <= 3 THEN t
    ELSE Commas(SubSeq(t, 1, Len(t) - 3)) \o <<",">> \o SubSeq(t, Len(t) - 2, Len(t))

\* the rupee sign (written Rs) and int(v) with thousands separators, or v
\* itself when int(v) raises
fmt_money(v) == IF IsNa(v) THEN v ELSE <<"Rs">> \o Commas(IntToDigits(v))

ViewRow(r) ==
    [Rank |-> r.global_rank, Badge |-> r.badge, Zone |-> r.zone, Area |-> r.area,
     Region |-> r.region, Median_1BHK |-> fmt_money(r.rent_median_1bhk),
     Deposit |-> r.deposit_ratio]

DownloadRow(r) ==
    [rank |-> r.global_rank, zone |-> r.zone, area |-> r.area, region |-> r.region,
     median_1bhk |-> r.rent_median_1bhk, deposit_ratio |-> r.deposit_ratio,
     rank_badge |-> r.badge]

-----------------------------------------------------------------------------
(* Input catalogues *)

\* zone, area, region of the enumerated listings
Places ==
    << [zone |-> <<"I","s","l","a","n","d"," ","C","i","t","y">>,
        area |-> <<"C","o","l","a","b","a">>,
        region |-> <<"S","o","u","t","h"," ","M","u","m","b","a","i">>],
       [zone |-> <<"N","a","v","i"," ","M","u","m","b","a","i">>,
        area |-> <<"K","h","a","r","g","h","a","r">>,
        region |-> <<"N","a","v","i"," ","M","u","m","b","a","i">>],
       [zone |-> <<"C","e","n","t","r","a","l"," ","L","i","n","e">>,
        area |-> <<"D","o","m","b","i","v","l","i">>,
        region |-> <<"C","e","n","t","r","a","l">>] >>

MedianCells ==
    << TextCell(<<"2","5","0","0","0">>), TextCell(<<"8","0","0","0","0">>),
       TextCell(<<"n","/","a">>) >>

DepositCells == << TextCell(<<"2","x">>), NaCell >>

UnusableDeposits == {NaCell, TextCell(<<"n","/","a">>), TextCell(<<>>)}

RawRow(place, med, dep) ==
    [zone |-> place.zone, area |-> place.area, region |-> place.region,
     rent_median_1bhk |-> med, deposit_ratio |-> dep]

NumOptions == Len(Places) * Len(MedianCells) * Len(DepositCells)

RowOption(k) ==
    RawRow(Places[((k - 1) % Len(Places)) + 1],
           MedianCells[(((k - 1) \div Len(Places)) % Len(MedianCells)) + 1],
           DepositCells[((k - 1) \div (Len(Places) * Len(MedianCells))) + 1])

\* the catalogues of at most MaxRows listings; listings with the same sort keys
\* are the same listing here, so one order of the file per catalogue is enough
SmallCatalogs ==
    UNION {{[i \in 1..n |-> RowOption(s[i])] :
               s \in {t \in [1..n -> 1..NumOptions] :
                         \A i \in 1..(n - 1) : t[i] <= t[i + 1]}} :
           n \in 0..MaxRows}

\* the three listings of the worked example, in any file order, with any
\* unusable deposit text
ScenarioCatalogs ==
    {[i \in 1..3 |-> RawRow(Places[p[i]], MedianCells[IF p[i] = 1 THEN 2 ELSE 1], d[i])] :
        p \in {q \in [1..3 -> 1..3] : \A i, j \in 1..3 : q[i] = q[j] => i = j},
        d \in [1..3 -> UnusableDeposits]}

\* n listings with n distinct medians (highest first in the file), then
\* optionally a listing tied with the lowest (tie = 1) or highest (tie = 2)
\* median, then optionally a listing without a usable median
LargeCatalog(n, tie, na) ==
    [i \in 1..n |->
        RawRow(Places[(i % 3) + 1], TextCell(IntToDigits(10000 + 500 * (n + 1 - i))),
               DepositCells[(i % 2) + 1])]
    \o (IF tie = 0 THEN <<>>
        ELSE <<RawRow(Places[1],
                      TextCell(IntToDigits(IF tie = 1 THEN 10500 ELSE 10000 + 500 * n)),
                      DepositCells[1])>>)
    \o (IF na THEN <<RawRow(Places[2], MedianCells[3], DepositCells[2])>> ELSE <<>>)

LargeCatalogs ==
    {LargeCatalog(n, tie, na) : n \in 1..MaxCatalog, tie \in 0..2, na \in BOOLEAN}

SearchTexts == {<<>>, <<" ","K","h"," ">>}

\* the selections offered by the zone multiselect that are enumerated
ZoneChoices(zones) == {zones, {}} \cup {{z} : z \in zones}

-----------------------------------------------------------------------------
(* The script run *)

Unassigned ==
    /\ zone_selected = {}
    /\ rent_range = <<0, 0>>
    /\ search = <<>>
    /\ group_zone = FALSE
    /\ sort_choice = "Global Rank (asc)"
    /\ filtered = <<>>
    /\ view = <<>>
    /\ download_cols = <<>>

NoCalls ==
    /\ depText = NaCell
    /\ depResult = <<>>
    /\ pxArea = <<>>
    /\ pxRegion = <<>>
    /\ pxResult = NaN

InitWith(catalogs) ==
    /\ pc = "load"
    /\ csv \in catalogs
    /\ df = csv
    /\ Unassigned
    /\ NoCalls

Init == InitWith(SmallCatalogs)

InitScenario == InitWith(ScenarioCatalogs)

InitCatalog == InitWith(LargeCatalogs)

Step(from, to) == pc = from /\ pc' = to

\* lines 62-63
Coerce ==
    /\ Step("load", "coerced")
    /\ df' = Coerced(df)
    /\ UNCHANGED <<csv, zone_selected, rent_range, search, group_zone, sort_choice,
                   filtered, view, download_cols, depVars, pxVars>>

\* line 74
ParseDeposits ==
    /\ Step("coerced", "deposits")
    /\ df' = WithDeposit(df)
    /\ UNCHANGED <<csv, zone_selected, rent_range, search, group_zone, sort_choice,
                   filtered, view, download_cols, depVars, pxVars>>

\* line 103
ScoreProximity ==
    /\ Step("deposits", "scored")
    /\ df' = WithProximity(df)
    /\ UNCHANGED <<csv, zone_selected, rent_range, search, group_zone, sort_choice,
                   filtered, view, download_cols, depVars, pxVars>>

\* lines 106-109
GlobalSort ==
    /\ Step("scored", "sorted")
    /\ df' = GlobalSorted(df)
    /\ UNCHANGED <<csv, zone_selected, rent_range, search, group_zone, sort_choice,
                   filtered, view, download_cols, depVars, pxVars>>

\* line 111
GlobalRank ==
    /\ Step("sorted", "ranked")
    /\ df' = WithRank(df)
    /\ UNCHANGED <<csv, zone_selected, rent_range, search, group_zone, sort_choice,
                   filtered, view, download_cols, depVars, pxVars>>

\* line 123
Badge ==
    /\ Step("ranked", "badged")
    /\ df' = WithBadge(df)
    /\ UNCHANGED <<csv, zone_selected, rent_range, search, group_zone, sort_choice,
                   filtered, view, download_cols, depVars, pxVars>>

\* lines 129-144: int() of a NaN minimum or maximum raises and ends the run;
\* otherwise the widgets return the user's choices
Sidebar ==
    /\ pc = "badged"
    /\ IF IsNa(ColMin(df)) \/ IsNa(ColMax(df))
       THEN /\ pc' = "aborted"
            /\ UNCHANGED <<zone_selected, rent_range, search, group_zone, sort_choice>>
       ELSE /\ pc' = "widgets"
            /\ zone_selected' \in ZoneChoices({df[i].zone : i \in 1..Len(df)})
            /\ rent_range' \in {<<lo, hi>> : lo \in {ColMin(df), ColMax(df)},
                                            hi \in {ColMin(df), ColMax(df)}}
            /\ rent_range'[1] <= rent_range'[2]
            /\ search' \in SearchTexts
            /\ group_zone' \in BOOLEAN
            /\ sort_choice' \in SortChoices
            /\ (group_zone' => sort_choice' = "Global Rank (asc)")
    /\ UNCHANGED <<csv, df, filtered, view, download_cols, depVars, pxVars>>

\* lines 169-184: df.iloc[0] raises on an empty frame, and int() raises on the
\* NaN median of the first or the last row
Metrics ==
    /\ pc = "widgets"
    /\ pc' = IF \/ Len(df) = 0
                \/ IsNa(df[1].rent_median_1bhk)
                \/ IsNa(df[Len(df)].rent_median_1bhk)
             THEN "aborted" ELSE "metrics"
    /\ UNCHANGED <<csv, df, zone_selected, rent_range, search, group_zone, sort_choice,
                   filtered, view, download_cols, depVars, pxVars>>

\* lines 189-209
FilterDataset ==
    /\ Step("metrics", "filtered")
    /\ \E rev \in BOOLEAN :
          filtered' = DisplaySorted(FilterRows(df, zone_selected, rent_range, search),
                                    group_zone, sort_choice, rev)
    /\ UNCHANGED <<csv, df, zone_selected, rent_range, search, group_zone, sort_choice,
                   view, download_cols, depVars, pxVars>>

\* lines 220-239
Table ==
    /\ Step("filtered", "table")
    /\ view' = [i \in 1..Len(filtered) |-> ViewRow(filtered[i])]
    /\ UNCHANGED <<csv, df, zone_selected, rent_range, search, group_zone, sort_choice,
                   filtered, download_cols, depVars, pxVars>>

\* lines 280-291
Download ==
    /\ Step("table", "done")
    /\ download_cols' = [i \in 1..Len(filtered) |-> DownloadRow(filtered[i])]
    /\ UNCHANGED <<csv, df, zone_selected, rent_range, search, group_zone, sort_choice,
                   filtered, view, depVars, pxVars>>

\* a widget interaction or the reload button reruns the script from the top
Rerun ==
    /\ pc \in {"done", "aborted"}
    /\ pc' = "load"
    /\ df' = csv
    /\ zone_selected' = {}
    /\ rent_range' = <<0, 0>>
    /\ search' = <<>>
    /\ group_zone' = FALSE
    /\ sort_choice' = "Global Rank (asc)"
    /\ filtered' = <<>>
    /\ view' = <<>>
    /\ download_cols' = <<>>
    /\ UNCHANGED <<csv, depVars, pxVars>>

RankingNext ==
    \/ Coerce
    \/ ParseDeposits
    \/ ScoreProximity
    \/ GlobalSort
    \/ GlobalRank
    \/ Badge

Next ==
    \/ RankingNext
    \/ Sidebar
    \/ Metrics
    \/ FilterDataset
    \/ Table
    \/ Download
    \/ Rerun

Spec == Init /\ [][Next]_vars

SpecScenario == InitScenario /\ [][Next]_vars

SpecRanking == InitCatalog /\ [][RankingNext]_vars

-----------------------------------------------------------------------------
(* Calls of the two row functions on enumerated arguments *)

DepChars == {"3", "5", ".", " ", "x", "X", "-"}

DepExamples ==
    { <<"3","x">>, <<"3","x","-","4","x">>, <<" ","2",".","5","X"," ">>,
      <<"n","/","a">>, <<"5">>, <<>> }

\* every text of at most MaxDepLen characters of DepChars, the worked examples,
\* and the missing cell
DepInputs ==
    {NaCell}
    \cup {TextCell(t) : t \in DepExamples}
    \cup {TextCell(t) : t \in UNION {[1..n -> DepChars] : n \in 0..MaxDepLen}}

ProxTokens ==
    <<
       <<"L","o","w","e","r"," ","P","a","r","e","l">>,
       <<"C","o","l","a","b","a">>,
       <<"B","a","n","d","r","a">>,
       <<"K","h","a","r">>,
       <<"V","i","r","a","r">>,
       <<"D","a","d","a","r">>,
       <<"D","o","m","b","i","v","l","i">>,
       <<"C","h","e","m","b","u","r">>,
       <<"G","o","v","a","n","d","i">>,
       <<"M","a","n","k","h","u","r","d">>,
       <<"V","a","s","h","i">>,
       <<"K","h","a","r","g","h","a","r">>,
       <<"P","a","n","v","e","l">>,
       <<"U","r","a","n">> >>

ProxRegions ==
    { <<>>,
       <<"S","o","u","t","h"," ","M","u","m","b","a","i">>,
       <<"W","e","s","t","e","r","n"," ","S","u","b","u","r","b","s">>,
       <<"C","e","n","t","r","a","l">>,
       <<"H","a","r","b","o","u","r"," ","L","i","n","e">>,
       <<"N","a","v","i"," ","M","u","m","b","a","i">>,
       <<"T","h","a","n","e"," ","D","i","s","t","r","i","c","t">> }

RECURSIVE JoinTokens(_)
JoinTokens(ts) ==
    IF ts = <<>> THEN <<>>
    ELSE IF Len(ts) = 1 THEN ProxTokens[ts[1]]
    ELSE ProxTokens[ts[1]] \o <<" ">> \o JoinTokens(Tail(ts))

\* every name of the five tables, and every area made of at most MaxTokens
\* of the sample names
ProxAreas ==
    SeqToSet(south_core) \cup SeqToSet(western_core) \cup SeqToSet(central_core)
    \cup SeqToSet(harbour_core) \cup SeqToSet(navi_core)
    \cup {JoinTokens(ts) : ts \in UNION {[1..n -> 1..Len(ProxTokens)] : n \in 0..MaxTokens}}

PipelineIdle ==
    /\ csv = <<>>
    /\ df = <<>>
    /\ Unassigned

InitParse ==
    /\ pc = "dep_call"
    /\ depText \in DepInputs
    /\ depResult = <<>>
    /\ pxArea = <<>>
    /\ pxRegion = <<>>
    /\ pxResult = NaN
    /\ PipelineIdle

CallParseDeposit ==
    /\ Step("dep_call", "dep_returned")
    /\ depResult' = parse_deposit_ratio(depText)
    /\ UNCHANGED <<csv, pipeVars, depText, pxVars>>

ParseNext == CallParseDeposit

SpecParse == InitParse /\ [][ParseNext]_vars

InitProx ==
    /\ pc = "px_call"
    /\ pxArea \in ProxAreas
    /\ pxRegion \in ProxRegions
    /\ pxResult = NaN
    /\ depText = NaCell
    /\ depResult = <<>>
    /\ PipelineIdle

CallProximityScore ==
    /\ Step("px_call", "px_returned")
    /\ pxResult' = proximity_score(pxArea, pxRegion)
    /\ UNCHANGED <<csv, pipeVars, depVars, pxArea, pxRegion>>

ProxNext == CallProximityScore

SpecProx == InitProx /\ [][ProxNext]_vars

-----------------------------------------------------------------------------
(* Properties of the filtered view *)

\* the medians of the listings in the file that are numbers
FileMedians == {to_numeric(csv[i].rent_median_1bhk) : i \in 1..Len(csv)} \ {NaN}

\* the dense rank of median m among all listings of the file
NoFilterRank(m) == Cardinality({x \in FileMedians : x <= m})

Displayed == pc \in {"filtered", "table", "done"}

\* C1: whatever the zones, rent range, search text, grouping flag and sort
\* choice, every row kept in the displayed and in the exported table is a row
\* of the ranked frame with its fields untouched, and its rank and badge are
\* the ones computed over all listings of the file with no filter applied.
C1_FilterKeepsRankAndBadge ==
    Displayed =>
        /\ \A i \in 1..Len(filtered) :
              /\ \E k \in 1..Len(df) : filtered[i] = df[k]
              /\ filtered[i].global_rank = NoFilterRank(filtered[i].rent_median_1bhk)
        /\ pc \in {"table", "done"} =>
              /\ Len(view) = Len(filtered)
              /\ \A i \in 1..Len(view) :
                    /\ view[i].Rank = NoFilterRank(filtered[i].rent_median_1bhk)
                    /\ \E k \in 1..Len(df) :
                          /\ df[k].area = view[i].Area
                          /\ df[k].global_rank = view[i].Rank
                          /\ df[k].badge = view[i].Badge
        /\ pc = "done" =>
              /\ Len(download_cols) = Len(filtered)
              /\ \A i \in 1..Len(download_cols) :
                    /\ download_cols[i].rank = NoFilterRank(download_cols[i].median_1bhk)
                    /\ \E k \in 1..Len(df) :
                          /\ df[k].area = download_cols[i].area
                          /\ df[k].global_rank = download_cols[i].rank
                          /\ df[k].badge = download_cols[i].rank_badge

\* a filter has dropped the cheapest listing, and the exported row still has rank 2
C1_Witness ==
    /\ pc = "done"
    /\ Len(download_cols) = 1
    /\ Len(df) = 2
    /\ download_cols[1].rank = 2
    /\ download_cols[1].rank_badge = "Budget"

HasMissingMedian == \E i \in 1..Len(csv) : IsNa(to_numeric(csv[i].rent_median_1bhk))

\* C3: a listing whose median is missing or not a number never ends the run:
\* the run is not aborted, the row sorts after every row with a numeric median,
\* and it gets no rank and an empty badge.
C3_MissingMedianNeverAborts ==
    HasMissingMedian =>
        /\ pc # "aborted"
        /\ pc \in {"sorted", "ranked", "badged"} =>
              \A i, j \in 1..Len(df) :
                  (IsNa(df[i].rent_median_1bhk) /\ ~IsNa(df[j].rent_median_1bhk)) => j < i
        /\ pc = "badged" =>
              \A i \in 1..Len(df) :
                  IsNa(df[i].rent_median_1bhk) =>
                      (IsNa(df[i].global_rank) /\ df[i].badge = "")

\* C5: without zone grouping and with the sort choice "Global Rank (asc)", the
\* displayed rows are in ascending order of the composite key
\* (rent_median_1bhk, deposit_months_min, proximity_score, area).
C5_RankDisplayIsCompositeOrder ==
    (Displayed /\ ~group_zone /\ sort_choice = "Global Rank (asc)") =>
        \A i, j \in 1..Len(filtered) :
            i < j => ~SeqLess(GlobalSortKey(filtered[j]), GlobalSortKey(filtered[i]))

-----------------------------------------------------------------------------
(* Properties of the ranking engine *)

Ranked == pc \in {"ranked", "badged"}

NumericRows == {i \in 1..Len(df) : ~IsNa(df[i].rent_median_1bhk)}

\* C2: the ranks of the rows with a numeric median are exactly 1..K, K the
\* number of distinct medians; a larger median has a larger rank; equal medians
\* have equal ranks, whatever the other sort keys are.
C2_DenseRank ==
    Ranked =>
        /\ {df[i].global_rank : i \in NumericRows}
              = 1..Cardinality({df[i].rent_median_1bhk : i \in NumericRows})
        /\ \A i, j \in NumericRows :
              /\ df[i].rent_median_1bhk < df[j].rent_median_1bhk
                    => df[i].global_rank < df[j].global_rank
              /\ df[i].rent_median_1bhk = df[j].rent_median_1bhk
                    => df[i].global_rank = df[j].global_rank

\* two rows that the composite sort separates by their deposit share a rank,
\* and later ranks follow without a gap
C2_Witness ==
    /\ pc = "ranked"
    /\ \E i, j \in 1..Len(df) :
          /\ i < j
          /\ df[i].rent_median_1bhk = df[j].rent_median_1bhk
          /\ df[i].deposit_months_min # df[j].deposit_months_min
          /\ df[i].global_rank = 1
          /\ df[j].global_rank = 1
    /\ \E k \in 1..Len(df) : df[k].global_rank = 3

\* the badge the rank buckets give
BucketBadge(r) ==
    IF r = NaN THEN ""
    ELSE IF r \in 1..15 THEN "Budget"
    ELSE IF r \in 16..25 THEN "Value"
    ELSE IF r \in 26..40 THEN "Mid"
    ELSE IF r \in 41..50 THEN "Upper Mid"
    ELSE IF r \in 51..55 THEN "Premium"
    ELSE "Luxury"

\* C9: every row's badge is the bucket of its own rank: Budget for 1..15, Value
\* for 16..25, Mid for 26..40, Upper Mid for 41..50, Premium for 51..55, Luxury
\* from 56 on, and the empty string for a row without a rank.
C9_BadgeBuckets ==
    pc = "badged" =>
        \A i \in 1..Len(df) :
            /\ df[i].badge = BucketBadge(df[i].global_rank)
            /\ df[i].global_rank # NaN => df[i].global_rank >= 1

\* a frame holding both sides of every bucket boundary and a row without a rank
C9_Witness ==
    /\ pc = "badged"
    /\ { <<1, "Budget">>, <<15, "Budget">>, <<16, "Value">>, <<25, "Value">>,
         <<26, "Mid">>, <<40, "Mid">>, <<41, "Upper Mid">>, <<50, "Upper Mid">>,
         <<51, "Premium">>, <<55, "Premium">>, <<56, "Luxury">>, <<NaN, "">> }
          \subseteq {<<df[i].global_rank, df[i].badge>> : i \in 1..Len(df)}

-----------------------------------------------------------------------------
(* The worked example *)

Colaba == Places[1].area
Kharghar == Places[2].area
Dombivli == Places[3].area

RowOf(area) == CHOOSE i \in 1..Len(df) : df[i].area = area

ScenarioRanks ==
    /\ df[RowOf(Kharghar)].global_rank = 1
    /\ df[RowOf(Dombivli)].global_rank = 1
    /\ df[RowOf(Colaba)].global_rank = 2

\* C6 as stated: both 25000 rows get rank 1, Colaba rank 2, and the area name
\* decides the composite order of the two rank-1 rows, Dombivli first.
C6_AreaDecidesOrder ==
    pc = "badged" =>
        /\ ScenarioRanks
        /\ df[RowOf(Dombivli)].proximity_score = df[RowOf(Kharghar)].proximity_score
        /\ RowOf(Dombivli) < RowOf(Kharghar)

\* C6 amended: both 25000 rows get rank 1, Colaba rank 2, the deposits are all
\* the default, and the proximity score decides the composite order of the two
\* rank-1 rows: Kharghar scores 1 (the western-table name Khar occurs in it),
\* Dombivli scores 12, so Kharghar comes before Dombivli.
C6_ProximityDecidesOrder ==
    pc = "badged" =>
        /\ ScenarioRanks
        /\ \A i \in 1..Len(df) : df[i].deposit_months_min = DefaultDeposit
        /\ df[RowOf(Kharghar)].proximity_score = 1
        /\ df[RowOf(Dombivli)].proximity_score = 12
        /\ RowOf(Kharghar) < RowOf(Dombivli)
        /\ RowOf(Dombivli) < RowOf(Colaba)

\* the file lists Dombivli before Kharghar, and the sort has put Kharghar first
C6_Witness ==
    /\ pc = "badged"
    /\ csv[1].area = Colaba
    /\ csv[2].area = Dombivli
    /\ csv[3].area = Kharghar
    /\ df[1].area = Kharghar
    /\ df[2].area = Dombivli
    /\ df[2].global_rank = 1
    /\ df[3].global_rank = 2

-----------------------------------------------------------------------------
(* Properties of parse_deposit_ratio *)

\* s[i..j] reads digits, or digits "." digits
NumeralAt(s, i, j) ==
    /\ 1 <= i
    /\ i <= j
    /\ j <= Len(s)
    /\ \/ \A q \in i..j : IsDigit(s[q])
       \/ \E d \in (i + 1)..(j - 1) :
             /\ s[d] = "."
             /\ \A q \in (i..j) \ {d} : IsDigit(s[q])

\* after position j come optional whitespace and then an x
FollowedByX(s, j) ==
    \E k \in (j + 1)..Len(s) :
        /\ s[k] = "x"
        /\ \A q \in (j + 1)..(k - 1) : IsSpace(s[q])

Numerals(s) == {ij \in (1..Len(s)) \X (1..Len(s)) : NumeralAt(s, ij[1], ij[2])}

NumeralsX(s) == {ij \in Numerals(s) : FollowedByX(s, ij[2])}

\* the first of a set of numerals: the leftmost start, and its longest reading
First(ns) ==
    CHOOSE ij \in ns :
        \A kl \in ns : ij[1] < kl[1] \/ (ij[1] = kl[1] /\ ij[2] >= kl[2])

NumberAt(s, ij) == ToFloat(SubSeq(s, ij[1], ij[2]))

Tenths(n) == n * Pow10(FracDigits - 1)

\* C7: parse_deposit_ratio returns, ignoring case, the first number that is
\* followed by optional whitespace and an x; without one, the first number of
\* the text; without any number, or for a missing cell, 4.0.  The worked
\* examples: "3x" -> 3.0, "3x-4x" -> 3.0, " 2.5X " -> 2.5, "5" -> 5.0,
\* "n/a" -> 4.0, "" -> 4.0.
C7_ParseContract ==
    pc = "dep_returned" =>
        /\ IF depText.na THEN depResult = <<4, 0>>
           ELSE IF NumeralsX(Lower(depText.text)) # {}
           THEN depResult = NumberAt(Lower(depText.text), First(NumeralsX(Lower(depText.text))))
           ELSE IF Numerals(depText.text) # {}
           THEN depResult = NumberAt(depText.text, First(Numerals(depText.text)))
           ELSE depResult = <<4, 0>>
        /\ depText = TextCell(<<"3","x">>) => depResult = <<3, 0>>
        /\ depText = TextCell(<<"3","x","-","4","x">>) => depResult = <<3, 0>>
        /\ depText = TextCell(<<" ","2",".","5","X"," ">>) => depResult = <<2, Tenths(5)>>
        /\ depText = TextCell(<<"5">>) => depResult = <<5, 0>>
        /\ depText = TextCell(<<"n","/","a">>) => depResult = <<4, 0>>
        /\ depText = TextCell(<<>>) => depResult = <<4, 0>>

\* a later number followed by an x wins over an earlier bare number
C7_Witness ==
    /\ pc = "dep_returned"
    /\ depText = TextCell(<<"5"," ","3","X">>)
    /\ depResult = <<3, 0>>

-----------------------------------------------------------------------------
(* Properties of proximity_score *)

\* the bands in priority order: south, western, central, harbour, navi
BandKeywords ==
    << <<"s","o","u","t","h">>, <<"w","e","s","t","e","r","n">>,
       <<"c","e","n","t","r","a","l">>, <<"h","a","r","b","o","u","r">>,
       <<"n","a","v","i">> >>

BandTables == <<south_core, western_core, central_core, harbour_core, navi_core>>

BandDefaults == <<0, 50, 50, 30, 40>>

\* the positions (from 0) of the names of band b that occur in the area
NameHits(b, area) ==
    {k - 1 : k \in {n \in 1..Len(BandTables[b]) :
                      Contains(Lower(area), Lower(BandTables[b][n]))}}

\* a band matches by its region keyword or by any name of its own table
BandMatches(b, area, region) ==
    Contains(Lower(region), BandKeywords[b]) \/ NameHits(b, area) # {}

MatchingBands(area, region) == {b \in 1..5 : BandMatches(b, area, region)}

Least(S) == CHOOSE x \in S : \A y \in S : x <= y

\* the score band b gives an area
BandScore(b, area) ==
    IF NameHits(b, area) # {} THEN Least(NameHits(b, area)) ELSE BandDefaults[b]

\* C4: each band matches by its region keyword or by any name of its own
\* table: the score comes from the first band that matches in this sense, and
\* an area holding a harbour-table name that no earlier band matches gets that
\* name's position in the harbour table, whatever the region.
C4_AnyTableNameMatches ==
    pc = "px_returned" =>
        /\ \A b \in 1..5 :
              (BandMatches(b, pxArea, pxRegion)
                  /\ \A e \in 1..(b - 1) : ~BandMatches(e, pxArea, pxRegion))
              => pxResult \in NameHits(b, pxArea) \cup {BandDefaults[b]}
        /\ (NameHits(4, pxArea) # {}
               /\ \A e \in 1..3 : ~BandMatches(e, pxArea, pxRegion))
              => pxResult = Least(NameHits(4, pxArea))

\* C8: when more than one band matches (by region keyword or by a name of its
\* table), the score is that of the earliest matching band in the order south,
\* western, central, harbour, navi.
C8_EarliestBandWins ==
    (pc = "px_returned" /\ Cardinality(MatchingBands(pxArea, pxRegion)) > 1) =>
        pxResult = BandScore(Least(MatchingBands(pxArea, pxRegion)), pxArea)

\* C10: the score is the position of the first name of the matched band's table
\* that occurs in the area; the band default (0, 50, 50, 30, 40) when the band
\* matched by its region keyword only; 60 when no band matches.
C10_IndexDefaultFallback ==
    pc = "px_returned" =>
        IF MatchingBands(pxArea, pxRegion) = {} THEN pxResult = 60
        ELSE IF NameHits(Least(MatchingBands(pxArea, pxRegion)), pxArea) # {}
        THEN pxResult = Least(NameHits(Least(MatchingBands(pxArea, pxRegion)), pxArea))
        ELSE pxResult = BandDefaults[Least(MatchingBands(pxArea, pxRegion))]

====
